---- MODULE Spec2Model ----
(***************************************************************************)
(* Model of the EFGB file synchronisation scripts: monitor.py (initial     *)
(* pass, poll loop, transfer executor).                                    *)
(***************************************************************************)
EXTENDS Integers, Sequences, FiniteSets, TLC

(* ---------------------------------------------------------------- bounds *)
\* directory level of the deepest file of the modelled source tree
MaxDepth == 2
\* largest value of --retries explored
MaxRetries == 2
\* batch_size of sync_files (100 in the source), scaled down
BatchSize == 2
\* worker threads of the ThreadPoolExecutor running batches at the same time
PoolSize == 2
\* largest value of the clock and of a modification time
MaxTime == 2
\* files that can be added to a project directory while cryo_sync.py runs
MaxNewFiles == 1
\* process_project processes of one project running at the same time
MaxProcs == 2

(* ------------------------------------------------------- the source tree *)
\* A node of the source tree: its path relative to source_dir (a sequence of
\* names) and its kind.  "linkfile" is a symbolic link to a regular file,
\* "linkdir" a symbolic link to a directory; the entries below a linkdir
\* are the entries of the directory it points to.
RECURSIVE DirPath(_)
DirPath(k) == IF k = 0 THEN <<>> ELSE DirPath(k - 1) \o <<"d">>

DirNodes ==
    { [path |-> DirPath(k), kind |-> "dir"] : k \in 1..MaxDepth }
      \cup { [path |-> <<"s">>, kind |-> "linkdir"] }

FileNodes ==
    { [path |-> DirPath(k) \o <<"f">>, kind |-> "file"] : k \in {0, 1, MaxDepth} }
      \cup { [path |-> <<"l">>, kind |-> "linkfile"],
             [path |-> <<"s", "f">>, kind |-> "file"] }

Paths == { n.path : n \in FileNodes }

\* os.DirEntry.is_file() / is_dir() follow symbolic links
IsFile(n) == n.kind \in {"file", "linkfile"}
IsDir(n) == n.kind \in {"dir", "linkdir"}

\* os.path.islink(os.path.join(source_dir, p)): only the last component counts
islink(t, p) == \E n \in t : n.path = p /\ n.kind \in {"linkfile", "linkdir"}

\* position of an entry in the listing that os.scandir returns
NameRank(name) ==
    CASE name = "d" -> 1 [] name = "f" -> 2 [] name = "l" -> 3 [] OTHER -> 4

\* the names below one directory are distinct, so are their ranks: the entry
\* at position i is the one with i - 1 entries before it
Listing(S) ==
    [i \in 1..Cardinality(S) |->
        CHOOSE x \in S :
            Cardinality({ y \in S : NameRank(y.path[Len(y.path)])
                                      < NameRank(x.path[Len(x.path)]) }) = i - 1]

\* os.scandir(directory): the entries directly below directory
scandir(t, dir) ==
    Listing({ n \in t : /\ Len(n.path) = Len(dir) + 1
                       /\ SubSeq(n.path, 1, Len(dir)) = dir })

Range(s) == { s[i] : i \in 1..Len(s) }

\* The paths of the source tree whose access raises OSError: for a file or a
\* symbolic link to a file, entry.is_file() raises (the entry cannot be
\* examined); for a directory, os.scandir of it raises.
VARIABLE faulty

(* ------------------------------------------------- monitor.py: scanning *)
\* main, lines 265-274: the enumeration of the initial pass
RECURSIVE existing_sub(_)
existing_sub(entries) ==
    IF entries = <<>> THEN <<>>
    ELSE (IF IsFile(Head(entries)) THEN <<Head(entries).path>> ELSE <<>>)
           \o existing_sub(Tail(entries))

RECURSIVE existing_top(_, _)
existing_top(t, entries) ==
    IF entries = <<>> THEN <<>>
    ELSE LET e == Head(entries)
         IN (IF IsFile(e) THEN <<e.path>>
             ELSE IF IsDir(e) THEN existing_sub(scandir(t, e.path))
             ELSE <<>>) \o existing_top(t, Tail(entries))

existing_files_of(t) == existing_top(t, scandir(t, <<>>))

\* line 193 without the test of tracked_files
NewFileFilter_untracked(p, tracked, destf) == p \notin destf

\* monitor_directory.scan_directory, lines 187-203
NewFileFilter(p, tracked, destf) == p \notin tracked /\ p \notin destf

\* lines 190-201 without the descent into subdirectories of lines 199-201
RECURSIVE scan_entries_flat(_, _, _, _)
scan_entries_flat(t, entries, tracked, destf) ==
    IF entries = <<>> THEN <<>>
    ELSE (IF IsFile(Head(entries))
             /\ NewFileFilter(Head(entries).path, tracked, destf)
             THEN <<Head(entries).path>> ELSE <<>>)
           \o scan_entries_flat(t, Tail(entries), tracked, destf)

RECURSIVE scan_entries(_, _, _, _)
RECURSIVE scan_directory(_, _, _, _)
scan_entries(t, entries, tracked, destf) ==
    IF entries = <<>> THEN <<>>
    ELSE LET e == Head(entries)
         IN IF IsFile(e) /\ e.path \in faulty
               \* entry.is_file() raises inside the try of line 188: the except
               \* clause of line 202 is outside the for loop, which is left
               THEN <<>>
               ELSE (IF IsFile(e)
                        THEN (IF NewFileFilter(e.path, tracked, destf)
                                 THEN <<e.path>> ELSE <<>>)
                     ELSE IF IsDir(e)
                        THEN scan_directory(t, e.path, tracked, destf)
                     ELSE <<>>) \o scan_entries(t, Tail(entries), tracked, destf)

\* os.scandir(directory) raising is caught by the call that made it, line 202
scan_directory(t, dir, tracked, destf) ==
    IF dir \in faulty THEN <<>>
    ELSE scan_entries(t, scandir(t, dir), tracked, destf)

(* ------------------------------------------- monitor.py: file transfer *)
\* outcomes of one shutil.copy2 call: it succeeds, it raises before the
\* destination is written, or it raises leaving a partly written destination
CopyOutcomes == {"ok", "fail", "partial"}

\* copy_file_with_retries, lines 105-119.  att is the variable attempt, n the
\* number of shutil.copy2 calls made so far, outs[i] the outcome of the i-th
\* shutil.copy2 call, d the state of the destination file.  The result tells
\* the return value, the number of shutil.copy2 calls made and the state of
\* the destination file afterwards.

\* the loop giving up one attempt early
RECURSIVE copy_retry_loop_short(_, _, _, _, _)
copy_retry_loop_short(att, n, outs, r, d) ==
    IF att < r
       THEN IF outs[n + 1] = "ok"
               THEN [ok |-> TRUE, calls |-> n + 1, dest |-> "copied"]
               ELSE LET d2 == IF outs[n + 1] = "partial" THEN "partial" ELSE d
                    IN IF att + 1 < r - 1
                          THEN copy_retry_loop_short(att + 1, n + 1, outs, r, d2)
                          ELSE [ok |-> FALSE, calls |-> n + 1, dest |-> d2]
       ELSE [ok |-> FALSE, calls |-> n, dest |-> d]

RECURSIVE copy_retry_loop(_, _, _, _, _)
copy_retry_loop(att, n, outs, r, d) ==
    IF att < r
       THEN IF outs[n + 1] = "ok"
               THEN [ok |-> TRUE, calls |-> n + 1, dest |-> "copied"]
               ELSE LET d2 == IF outs[n + 1] = "partial" THEN "partial" ELSE d
                    IN IF att + 1 < r
                          THEN copy_retry_loop(att + 1, n + 1, outs, r, d2)
                          ELSE [ok |-> FALSE, calls |-> n + 1, dest |-> d2]
       ELSE [ok |-> FALSE, calls |-> n, dest |-> d]

copy_file_with_retries(outs, r, d) == copy_retry_loop(0, 0, outs, r, d)

\* the first shutil.copy2 call of outs that succeeds, Len(outs) + 1 if none
FirstOk(outs) ==
    IF \E i \in DOMAIN outs : outs[i] = "ok"
       THEN CHOOSE i \in DOMAIN outs :
               outs[i] = "ok" /\ \A j \in 1..(i - 1) : outs[j] # "ok"
       ELSE Len(outs) + 1

\* os.path.join(source_dir, file), os.path.join(dest_dir, file)
file_source(p) == <<"SOURCE_DIR">> \o p
file_dest(p) == <<"DEST_DIR">> \o p

\* the entry copy_file_batch appends to results for a copied file, line 133
batch_result(p) == <<file_source(p), file_dest(p)>>

\* sync_files, line 150: the batches of the list handed over
Min(a, b) == IF a < b THEN a ELSE b
NumBatches(paths) == (Len(paths) + BatchSize - 1) \div BatchSize
file_batches(paths) ==
    [b \in 1..NumBatches(paths) |->
        SubSeq(paths, (b - 1) * BatchSize + 1, Min(b * BatchSize, Len(paths)))]

NoStat == [p \in Paths |-> [out |-> "none", calls |-> 0, firstOk |-> 0]]

(* ----------------------------------------------------------------- state *)
VARIABLES
    tree,           \* nodes of the source tree
    dest,           \* destination tree: state of each path below dest_dir_project
    retries,        \* --retries
    resume,         \* --resume
    pc,             \* position of main
    files_to_sync,  \* main: files_to_sync
    source_files,   \* main: source_files
    dest_files,     \* main: dest_files
    tracked_files,  \* main: tracked_files
    new_files,      \* main: new_files, the last list monitor_directory returned
    attempt,        \* monitor_directory: attempt of the retry loop
    batches,        \* sync_files: per batch, state of its sync_batch call
    synced_files_count,  \* sync_files: synced_files_count
    failed_files,   \* sync_files: failed_files
    fstat,          \* history: per path, what the running sync_files did to
                    \* it, the shutil.copy2 calls made for it and the first
                    \* of its shutil.copy2 calls that could succeed
    synced_files_lock,  \* sync_files: the batch holding synced_files_lock, 0
                    \* when it is free
    interrupted,    \* main: KeyboardInterrupt was raised in the main thread
    changed,        \* history: the source tree changed after the initial pass
    changedSinceScan,  \* history: the source tree changed after the last scan
    emptyRun,       \* history: the empty scans made since the last scan that
                    \* found new files
    \* server-rpc.py and the client of its service
    mtime,          \* st_mtime of the file at each path of the tree
    now,            \* time.time()
    rpc,            \* the last call of exposed_scan_directory: its argument
                    \* last_scan_time and what it returned
    remote_up,      \* the scanner service can be reached
    last_scan_time, \* client: the checkpoint, <<>> for None
    provider,       \* client: what served the scan of the last cycle
    client_new,     \* client: the new paths of the last cycle
    written,        \* history: the files created or modified (their st_mtime
                    \* being the time of that moment) since the last scan of
                    \* the service started
    \* cryo_sync.py
    detached,       \* per project, what project.json says
    file_count,     \* per project, the files directly in its directory
    cpc,            \* position of monitor_projects
    project_dirs,   \* monitor_projects: project_dirs
    visit,          \* monitor_projects: position of the for loop of line 99
    procs,          \* per project, the process_project processes running
    foundDetached,  \* history: the projects found detached by this cycle
    startedNow      \* history: the projects this cycle started a process for

vars == <<tree, dest, retries, resume, pc, files_to_sync, source_files,
          dest_files, tracked_files, new_files, attempt, batches,
          synced_files_count, failed_files, fstat, synced_files_lock,
          interrupted, changed, changedSinceScan, emptyRun, faulty,
          mtime, now, rpc, remote_up, last_scan_time, provider, client_new,
          written,
          detached, file_count, cpc, project_dirs, visit, procs,
          foundDetached, startedNow>>

mainVars == <<files_to_sync, source_files, dest_files, tracked_files, new_files>>
syncVars == <<batches, synced_files_count, failed_files, fstat,
              synced_files_lock>>
\* what an action of main's own run leaves alone besides its own variables
\* the variables outside the run of main
rpcVars == <<mtime, now, rpc, remote_up, last_scan_time, provider, client_new,
             written>>
cryoVars == <<detached, file_count, cpc, project_dirs, visit, procs,
              foundDetached, startedNow>>
envVars == <<faulty, rpcVars, cryoVars>>

\* the projects below BASE_DIR
Projects == {"p1", "p2"}

\* no call of the scanner service was made
NoCall == [st |-> "none", arg |-> <<>>, files |-> {}, scan_time |-> 0]

\* server-rpc.py and its client are not running
RpcIdle ==
    /\ mtime = [p \in Paths |-> 0]
    /\ now = 0
    /\ rpc = NoCall
    /\ remote_up = FALSE
    /\ last_scan_time = <<>>
    /\ provider = "none"
    /\ client_new = {}
    /\ written = {}

\* cryo_sync.py is not running
CryoIdle ==
    /\ detached = [p \in Projects |-> "false"]
    /\ file_count = [p \in Projects |-> 0]
    /\ cpc = "off"
    /\ project_dirs = <<>>
    /\ visit = 0
    /\ procs = [p \in Projects |-> 0]
    /\ foundDetached = {}
    /\ startedNow = {}
restVars == <<interrupted, envVars>>

Init ==
    /\ tree \in { DirNodes \cup F : F \in SUBSET FileNodes }
    /\ dest = [p \in Paths |-> "absent"]
    /\ retries \in 0..MaxRetries
    /\ resume \in BOOLEAN
    /\ pc = "start"
    /\ files_to_sync = <<>>
    /\ source_files = {}
    /\ dest_files = {}
    /\ tracked_files = {}
    /\ new_files = <<>>
    /\ attempt = 0
    /\ batches = <<>>
    /\ synced_files_count = 0
    /\ failed_files = 0
    /\ fstat = NoStat
    /\ synced_files_lock = 0
    /\ interrupted = FALSE
    /\ changed = FALSE
    /\ changedSinceScan = FALSE
    /\ emptyRun = 0
    /\ faulty = {}
    /\ RpcIdle
    /\ CryoIdle

InSync == pc \in {"initial_sync", "poll_sync"}

\* the list the running sync_files call was given
SyncArg == IF pc = "initial_sync" THEN files_to_sync ELSE new_files

\* sync_files, lines 143-150 and 168: counters reset, every batch submitted
sync_files_begin(paths) ==
    /\ batches' = [b \in 1..NumBatches(paths) |->
                      [st |-> "queued", idx |-> 1, results |-> <<>>, seen |-> 0]]
    /\ synced_files_count' = 0
    /\ failed_files' = 0
    /\ fstat' = NoStat
    /\ synced_files_lock' = 0

(* ---------------------------------------------------------- main, part 1 *)
\* the positional parameters of compare_and_get_files_to_sync, line 13, none
\* of which has a default value
compare_required_params == 6
\* the arguments of the call of compare_and_get_files_to_sync at line 262
compare_call_args == 3

\* main, lines 260-262 with --resume: compare_and_get_files_to_sync takes six
\* positional arguments and is called with three, which raises TypeError;
\* main catches KeyboardInterrupt only
main_resume ==
    /\ pc = "start" /\ resume
    /\ compare_call_args < compare_required_params
    /\ pc' = "raised"
    /\ UNCHANGED <<tree, dest, retries, resume, mainVars, attempt, syncVars,
                   changed, changedSinceScan, emptyRun, restVars>>

\* main, lines 263-285 without --resume: the initial pass
main_initial_scan ==
    /\ pc = "start" /\ ~resume
    /\ LET existing_files == existing_files_of(tree)
       IN /\ files_to_sync' = existing_files
          /\ source_files' = Range(existing_files)
          /\ dest_files' = {}
          /\ IF existing_files # <<>>
                THEN /\ pc' = "initial_sync"
                     /\ sync_files_begin(existing_files)
                     /\ UNCHANGED tracked_files
                ELSE /\ pc' = "monitor"
                     /\ tracked_files' = Range(existing_files)
                     /\ UNCHANGED syncVars
    /\ UNCHANGED <<tree, dest, retries, resume, new_files, attempt, changed,
                   changedSinceScan, emptyRun, restVars>>

(* ------------------------------------------------------------ sync_files *)
Running == { b \in DOMAIN batches : batches[b].st \in {"running", "adding"} }
Queued == { b \in DOMAIN batches : batches[b].st = "queued" }

\* a pool thread runs sync_batch(b): b is being run, or is the first batch
\* still queued while a thread of the pool is free
CanRun(b) ==
    \/ batches[b].st = "running"
    \/ /\ batches[b].st = "queued"
       /\ \A c \in Queued : b <= c
       /\ Cardinality(Running) < PoolSize

\* os.makedirs(os.path.dirname(file_dest), exist_ok=True), line 130, can
\* raise only when there is a parent directory below dest_dir to create
MakedirsOutcomes(p) == IF Len(p) > 1 THEN {TRUE, FALSE} ELSE {TRUE}

\* a lock that never keeps a thread out
lock_free_always(l) == TRUE

\* with synced_files_lock (lines 157, 162, 173): the lock can be taken
lock_free(l) == l = 0

\* an exception of one batch ending every batch of the call
sync_batch_except_all(bs, b) ==
    [c \in DOMAIN bs |-> [bs[c] EXCEPT !.st = "done"]]

\* sync_batch, lines 160-164: the except branch ends batch b alone, which
\* returns the empty list
sync_batch_except(bs, b) ==
    [bs EXCEPT ![b] = [st |-> "done", idx |-> bs[b].idx, results |-> <<>>,
                       seen |-> 0]]

\* copy_file_batch, lines 124-137: one iteration of the loop over the batch
copy_file_batch_step(b) ==
    /\ InSync
    /\ b \in DOMAIN batches
    /\ CanRun(b)
    /\ LET batch == file_batches(SyncArg)[b]
           w == batches[b]
       IN /\ w.idx <= Len(batch)
          /\ LET p == batch[w.idx]
             IN IF islink(tree, p)
                   THEN /\ batches' = [batches EXCEPT ![b] =
                              [w EXCEPT !.st = "running", !.idx = w.idx + 1]]
                        /\ fstat' = [fstat EXCEPT ![p] =
                              [out |-> "skipped", calls |-> 0, firstOk |-> 0]]
                        /\ UNCHANGED <<dest, failed_files>>
                   ELSE \E made \in MakedirsOutcomes(p) :
                        IF ~made
                           \* sync_batch, lines 160-164: the batch raised;
                           \* failed_files is added to under the lock
                           THEN /\ lock_free(synced_files_lock)
                                /\ batches' = sync_batch_except(batches, b)
                                /\ failed_files' = failed_files + 1
                                /\ fstat' = [fstat EXCEPT ![p] =
                                      [out |-> "raised", calls |-> 0, firstOk |-> 0]]
                                /\ UNCHANGED dest
                           ELSE \E outs \in [1..retries -> CopyOutcomes] :
                                LET res == copy_file_with_retries(outs, retries, dest[p])
                                IN /\ dest' = [dest EXCEPT ![p] = res.dest]
                                   /\ batches' = [batches EXCEPT ![b] =
                                         [w EXCEPT !.st = "running",
                                            !.idx = w.idx + 1,
                                            !.results = IF res.ok
                                              THEN Append(w.results, batch_result(p))
                                              ELSE w.results]]
                                   /\ fstat' = [fstat EXCEPT ![p] =
                                         [out |-> IF res.ok THEN "copied" ELSE "failed",
                                          calls |-> res.calls,
                                          firstOk |-> FirstOk(outs)]]
                                   /\ UNCHANGED failed_files
    /\ UNCHANGED <<tree, retries, resume, pc, mainVars, attempt,
                   synced_files_count, synced_files_lock, changed,
                   changedSinceScan, emptyRun, restVars>>

\* sync_batch, lines 155-158: copy_file_batch returned; the thread takes
\* synced_files_lock and reads synced_files_count
sync_batch_acquire(b) ==
    /\ InSync
    /\ b \in DOMAIN batches
    /\ batches[b].st = "running"
    /\ batches[b].idx > Len(file_batches(SyncArg)[b])
    /\ lock_free(synced_files_lock)
    /\ synced_files_lock' = b
    /\ batches' = [batches EXCEPT ![b].st = "adding",
                                  ![b].seen = synced_files_count]
    /\ UNCHANGED <<tree, dest, retries, resume, pc, mainVars, attempt,
                   synced_files_count, failed_files, fstat, changed,
                   changedSinceScan, emptyRun, restVars>>

\* sync_batch, lines 158-159: the thread stores the sum, releases the lock
\* and returns results
sync_batch_add(b) ==
    /\ InSync
    /\ b \in DOMAIN batches
    /\ batches[b].st = "adding"
    /\ synced_files_count' = batches[b].seen + Len(batches[b].results)
    /\ synced_files_lock' = 0
    /\ batches' = [batches EXCEPT ![b].st = "done"]
    /\ UNCHANGED <<tree, dest, retries, resume, pc, mainVars, attempt,
                   failed_files, fstat, changed, changedSinceScan, emptyRun,
                   restVars>>

\* the loop ending at the first completed future
SyncFinished_first ==
    InSync /\ \E b \in DOMAIN batches : batches[b].st = "done"

\* sync_files, lines 169-170: as_completed has yielded every future
SyncFinished == InSync /\ \A b \in DOMAIN batches : batches[b].st = "done"

\* an executor left without waiting for its threads
ExecutorJoined_nowait == InSync

\* sync_files, line 167: leaving the with block of the ThreadPoolExecutor
\* waits until every submitted batch has run
ExecutorJoined == InSync /\ \A b \in DOMAIN batches : batches[b].st = "done"

\* a counter of the retry loop that is kept from one call to the next
first_attempt_kept(a) == a

\* monitor_directory, line 206: each call starts its retry loop anew
first_attempt(a) == 0

\* sync_files, lines 169-177, returns (every future being done, the with
\* block of line 167 is left without waiting); main goes on at line 284 (after the
\* initial pass) or at line 291 and the next turn of its loop, which calls
\* monitor_directory again
sync_files_return ==
    /\ SyncFinished
    /\ ~interrupted
    /\ tracked_files' = IF pc = "initial_sync" THEN Range(files_to_sync)
                        ELSE tracked_files
    /\ pc' = "monitor"
    /\ attempt' = first_attempt(attempt)
    /\ batches' = <<>>
    /\ synced_files_count' = 0
    /\ failed_files' = 0
    /\ fstat' = NoStat
    /\ synced_files_lock' = 0
    /\ UNCHANGED <<tree, dest, retries, resume, files_to_sync, source_files,
                   dest_files, new_files, changed, changedSinceScan, emptyRun,
                   restVars>>

(* ----------------------------------------------------- monitor_directory *)
\* monitor_directory, lines 206-216: one turn of the retry loop
monitor_directory_scan ==
    /\ pc = "monitor"
    /\ attempt < retries
    /\ attempt' = attempt + 1
    /\ changedSinceScan' = FALSE
    /\ LET found == scan_directory(tree, <<>>, tracked_files, dest_files)
       IN IF found # <<>>
             \* line 216 break, line 220 return, main lines 288-290
             THEN /\ new_files' = found
                  /\ pc' = "poll_sync"
                  /\ emptyRun' = 0
                  /\ sync_files_begin(found)
             ELSE /\ emptyRun' = emptyRun + 1
                  /\ UNCHANGED <<new_files, pc, syncVars>>
    /\ UNCHANGED <<tree, dest, retries, resume, files_to_sync, source_files,
                   dest_files, tracked_files, changed, restVars>>

\* monitor_directory returns the empty list after its last turn (line 220);
\* main, lines 292-297: leaves the loop, copies the side-car files, removes
\* cs.lock
main_exit ==
    /\ pc = "monitor"
    /\ attempt >= retries
    /\ new_files' = <<>>
    /\ pc' = "done"
    /\ UNCHANGED <<tree, dest, retries, resume, files_to_sync, source_files,
                   dest_files, tracked_files, attempt, syncVars, changed,
                   changedSinceScan, emptyRun, restVars>>

(* ------------------------------------------------------------ environment *)
\* a new file appears in the source tree while main sleeps (line 207)
AddFile(n) ==
    /\ pc = "monitor"
    /\ attempt < retries
    /\ n \notin tree
    /\ tree' = tree \cup {n}
    /\ changed' = TRUE
    /\ changedSinceScan' = TRUE
    /\ UNCHANGED <<dest, retries, resume, pc, mainVars, attempt, syncVars,
                   emptyRun, restVars>>

Next ==
    \/ main_resume
    \/ main_initial_scan
    \/ \E b \in 1..Cardinality(Paths) : copy_file_batch_step(b)
    \/ \E b \in 1..Cardinality(Paths) : sync_batch_acquire(b)
    \/ \E b \in 1..Cardinality(Paths) : sync_batch_add(b)
    \/ sync_files_return
    \/ monitor_directory_scan
    \/ main_exit
    \/ \E n \in FileNodes : AddFile(n)

Spec == Init /\ [][Next]_vars

(* ------------------------------------------------- main when interrupted *)
\* SIGINT while main runs: KeyboardInterrupt is raised in the main thread.
\* Outside sync_files it reaches the except clause of main, line 298, at
\* once, and main ends after its finally clause.  Inside sync_files it first
\* leaves the with block of line 167; the pool threads are not interrupted.
KeyboardInterrupt ==
    /\ ~interrupted
    /\ pc \in {"start", "initial_sync", "monitor", "poll_sync"}
    /\ interrupted' = TRUE
    /\ pc' = IF InSync THEN pc ELSE "done"
    /\ UNCHANGED <<tree, dest, retries, resume, mainVars, attempt, syncVars,
                   changed, changedSinceScan, emptyRun, envVars>>

\* sync_files, line 167, with KeyboardInterrupt pending: the executor has
\* been left, the exception reaches main's except clause, lines 298-301
sync_files_unwind ==
    /\ interrupted
    /\ ExecutorJoined
    /\ pc' = "done"
    /\ UNCHANGED <<tree, dest, retries, resume, mainVars, attempt, syncVars,
                   interrupted, changed, changedSinceScan, emptyRun, envVars>>

\* the regular files outside the symbolic links
PlainFiles == { n \in FileNodes : n.kind = "file" /\ n.path[1] # "s" }

SigNext ==
    \/ main_initial_scan
    \/ \E b \in 1..Cardinality(Paths) : copy_file_batch_step(b)
    \/ \E b \in 1..Cardinality(Paths) : sync_batch_acquire(b)
    \/ \E b \in 1..Cardinality(Paths) : sync_batch_add(b)
    \/ sync_files_return
    \/ monitor_directory_scan
    \/ main_exit
    \/ \E n \in PlainFiles : AddFile(n)
    \/ KeyboardInterrupt
    \/ sync_files_unwind

\* main started without --resume over a tree of regular files
SigInit ==
    /\ Init
    /\ ~resume
    /\ tree \subseteq DirNodes \cup PlainFiles

SigSpec == SigInit /\ [][SigNext]_vars

(* ------------------------------------------------ main running to its end *)
\* main without --resume and without interrupt, over a tree of regular
\* files.  The main thread and the threads of the pool keep running: a step
\* of the program that stays possible is taken (time.sleep returns, a
\* submitted batch is run, a free lock is taken).  Nothing is assumed of the
\* files that appear.
LiveNext ==
    \/ main_initial_scan
    \/ \E b \in 1..Cardinality(Paths) : copy_file_batch_step(b)
    \/ \E b \in 1..Cardinality(Paths) : sync_batch_acquire(b)
    \/ \E b \in 1..Cardinality(Paths) : sync_batch_add(b)
    \/ sync_files_return
    \/ monitor_directory_scan
    \/ main_exit
    \/ \E n \in PlainFiles : AddFile(n)

\* the steps of main and of the pool other than a turn of the retry loop
LiveProgram ==
    \/ main_initial_scan
    \/ \E b \in 1..Cardinality(Paths) : copy_file_batch_step(b)
    \/ \E b \in 1..Cardinality(Paths) : sync_batch_acquire(b)
    \/ \E b \in 1..Cardinality(Paths) : sync_batch_add(b)
    \/ sync_files_return
    \/ main_exit

\* monitor_directory, lines 206-207: a turn of the retry loop seen through
\* attempt.  monitor_directory_scan is possible exactly when its first two
\* conjuncts hold (the scan always yields a result), and it is the only step
\* of LiveNext that changes attempt while pc = "monitor"; so fairness of this
\* step is fairness of monitor_directory_scan.
retry_loop_turn ==
    /\ pc = "monitor"
    /\ attempt < retries
    /\ attempt' = attempt + 1

LiveSpec ==
    /\ SigInit
    /\ [][LiveNext]_vars
    /\ WF_vars(LiveProgram)
    /\ WF_attempt(retry_loop_turn)

(* ------------------------------------------- monitor_directory by itself *)
\* monitor_directory called with any tracked_files and dest_files (dest_files
\* is empty unless main resumes, line 278) over any source tree
MonitorInit ==
    /\ tree \in { DirNodes \cup F : F \in SUBSET FileNodes }
    /\ dest = [p \in Paths |-> "absent"]
    /\ retries \in 0..MaxRetries
    /\ tracked_files \in SUBSET Paths
    /\ \/ resume = FALSE /\ dest_files = {}
       \/ resume = TRUE /\ dest_files \in (SUBSET Paths) \ {{}}
    /\ pc = "monitor"
    /\ files_to_sync = <<>>
    /\ source_files = {}
    /\ new_files = <<>>
    /\ attempt = 0
    /\ batches = <<>>
    /\ synced_files_count = 0
    /\ failed_files = 0
    /\ fstat = NoStat
    /\ synced_files_lock = 0
    /\ interrupted = FALSE
    /\ changed = FALSE
    /\ changedSinceScan = FALSE
    /\ emptyRun = 0
    /\ faulty = {}
    /\ RpcIdle
    /\ CryoIdle

MonitorNext ==
    \/ monitor_directory_scan
    \/ main_exit
    \/ \E n \in FileNodes : AddFile(n)

MonitorSpec == MonitorInit /\ [][MonitorNext]_vars

(* ------------------------- monitor_directory over a tree with access errors *)
\* monitor_directory with nothing tracked, over any source tree in which the
\* access to any of the entries raises OSError
ScanErrInit ==
    /\ tree \in { DirNodes \cup F : F \in SUBSET FileNodes }
    /\ faulty \in SUBSET { n.path : n \in tree }
    /\ dest = [p \in Paths |-> "absent"]
    /\ retries \in 0..MaxRetries
    /\ resume = FALSE
    /\ tracked_files = {}
    /\ dest_files = {}
    /\ pc = "monitor"
    /\ files_to_sync = <<>>
    /\ source_files = {}
    /\ new_files = <<>>
    /\ attempt = 0
    /\ batches = <<>>
    /\ synced_files_count = 0
    /\ failed_files = 0
    /\ fstat = NoStat
    /\ synced_files_lock = 0
    /\ interrupted = FALSE
    /\ changed = FALSE
    /\ changedSinceScan = FALSE
    /\ emptyRun = 0
    /\ RpcIdle
    /\ CryoIdle

ScanErrSpec == ScanErrInit /\ [][MonitorNext]_vars

(* ============================================================ server-rpc.py *)
\* main of monitor.py is not running
MainIdle ==
    /\ dest = [p \in Paths |-> "absent"]
    /\ retries = 0
    /\ resume = FALSE
    /\ pc = "off"
    /\ files_to_sync = <<>>
    /\ source_files = {}
    /\ dest_files = {}
    /\ new_files = <<>>
    /\ attempt = 0
    /\ batches = <<>>
    /\ synced_files_count = 0
    /\ failed_files = 0
    /\ fstat = NoStat
    /\ synced_files_lock = 0
    /\ interrupted = FALSE
    /\ changed = FALSE
    /\ changedSinceScan = FALSE
    /\ emptyRun = 0

mainIdleVars == <<dest, retries, resume, pc, files_to_sync, source_files,
                  dest_files, new_files, attempt, syncVars, interrupted,
                  changed, changedSinceScan, emptyRun>>

\* the values of the argument last_scan_time: <<>> is None
ScanTimes == {<<>>} \cup { <<t>> : t \in 0..MaxTime }

\* a file also reported when it was modified at last_scan_time
is_newer_or_same(m, since) == since = <<>> \/ m >= since[1]

\* exposed_scan_directory, line 38
is_newer(m, since) == since = <<>> \/ m > since[1]

\* exposed_scan_directory.scan_directory, lines 32-44: new_files is a set;
\* an OSError of entry.is_file(), of entry.stat() or of the os.scandir of
\* the recursive call is caught inside the loop, which goes on
RECURSIVE rpc_scan_entries(_, _, _, _)
RECURSIVE rpc_scan_directory(_, _, _, _)
rpc_scan_entries(t, mt, entries, since) ==
    IF entries = <<>> THEN {}
    ELSE LET e == Head(entries)
         IN (IF e.path \in faulty THEN {}
             ELSE IF IsFile(e)
                THEN (IF is_newer(mt[e.path], since) THEN {e.path} ELSE {})
             ELSE IF IsDir(e) THEN rpc_scan_directory(t, mt, e.path, since)
             ELSE {}) \cup rpc_scan_entries(t, mt, Tail(entries), since)

rpc_scan_directory(t, mt, dir, since) ==
    rpc_scan_entries(t, mt, scandir(t, dir), since)

\* exposed_scan_directory, lines 21-48: the paths (a list made from the set
\* new_files, each path once, in no given order) and scan_time, read at
\* line 28 before the directory is walked
exposed_scan_directory(t, mt, clock, since) ==
    [st |-> "returned", arg |-> since,
     files |-> rpc_scan_directory(t, mt, <<>>, since), scan_time |-> clock]

\* a client calls the service
exposed_scan_directory_call(since) ==
    /\ remote_up
    /\ rpc' = exposed_scan_directory(tree, mtime, now, since)
    /\ written' = {}
    /\ UNCHANGED <<tree, faulty, tracked_files, mainIdleVars, mtime, now,
                   remote_up, last_scan_time, provider, client_new, cryoVars>>

\* time passes
Tick ==
    /\ now < MaxTime
    /\ now' = now + 1
    /\ UNCHANGED <<tree, faulty, tracked_files, mainIdleVars, mtime, rpc,
                   remote_up, last_scan_time, provider, client_new, written,
                   cryoVars>>

\* a file of the tree is written to
Touch(n) ==
    /\ n \in tree
    /\ mtime[n.path] # now
    /\ mtime' = [mtime EXCEPT ![n.path] = now]
    /\ written' = written \cup {n.path}
    /\ UNCHANGED <<tree, faulty, tracked_files, mainIdleVars, now, rpc,
                   remote_up, last_scan_time, provider, client_new, cryoVars>>

\* a file appears in the tree: written now, or moved in with the
\* modification time it had
CreateFile(n, m) ==
    /\ n \notin tree
    /\ tree' = tree \cup {n}
    /\ mtime' = [mtime EXCEPT ![n.path] = m]
    /\ written' = IF m = now THEN written \cup {n.path} ELSE written
    /\ UNCHANGED <<faulty, tracked_files, mainIdleVars, now, rpc, remote_up,
                   last_scan_time, provider, client_new, cryoVars>>

\* the service over any tree with any modification times, at most one of
\* whose top-level entries raises when accessed
RpcInit ==
    /\ MainIdle
    /\ CryoIdle
    /\ tracked_files = {}
    /\ tree \in { DirNodes \cup F : F \in SUBSET FileNodes }
    /\ faulty \in {{}} \cup { {n.path} : n \in { m \in tree : Len(m.path) = 1 } }
    /\ now \in 0..MaxTime
    /\ mtime \in [Paths -> 0..now]
    /\ \A n \in FileNodes : n \notin tree => mtime[n.path] = 0
    /\ rpc = NoCall
    /\ remote_up = TRUE
    /\ last_scan_time = <<>>
    /\ provider = "none"
    /\ client_new = {}
    /\ written = {}

RpcNext == \E since \in ScanTimes : exposed_scan_directory_call(since)

RpcSpec == RpcInit /\ [][RpcNext]_vars

(* --------------------------------- the service while the tree is written to *)
\* the files that appear in the tree the service scans
ScannedFiles == { n \in FileNodes : n.kind = "file" /\ Len(n.path) <= 2 }

\* the service is called again and again, with any last_scan_time, while
\* time passes and files are created and modified
ScanSeqInit ==
    /\ MainIdle
    /\ CryoIdle
    /\ tracked_files = {}
    /\ tree \in { DirNodes \cup F : F \in SUBSET ScannedFiles }
    /\ faulty = {}
    /\ now = 0
    /\ mtime = [p \in Paths |-> 0]
    /\ rpc = NoCall
    /\ remote_up = TRUE
    /\ last_scan_time = <<>>
    /\ provider = "none"
    /\ client_new = {}
    /\ written = {}

ScanSeqNext ==
    \/ \E since \in ScanTimes : exposed_scan_directory_call(since)
    \/ Tick
    \/ \E n \in ScannedFiles : Touch(n)
    \/ \E n \in ScannedFiles : \E m \in 0..now : CreateFile(n, m)

ScanSeqSpec == ScanSeqInit /\ [][ScanSeqNext]_vars

(* ------------------------------------------ the client of the scan service *)
\* The poll cycle of a client of the service, after spec.md, sections 4.1
\* and 4.4 (src/ holds no client): each cycle calls the remote scanner with
\* the checkpoint; when that fails, the cycle scans locally with
\* monitor_directory's scan, and the next cycle calls the remote scanner
\* again.  The checkpoint advances to the scan_time of a remote scan that
\* succeeded; the new paths of a cycle become tracked.
client_cycle ==
    /\ IF remote_up
          THEN LET r == exposed_scan_directory(tree, mtime, now, last_scan_time)
               IN /\ rpc' = r
                  /\ provider' = "remote"
                  /\ client_new' = r.files \ tracked_files
                  /\ last_scan_time' = <<r.scan_time>>
                  /\ written' = {}
          ELSE /\ rpc' = [NoCall EXCEPT !.st = "failed", !.arg = last_scan_time]
               /\ provider' = "local"
               /\ client_new' =
                     Range(scan_directory(tree, <<>>, tracked_files, {}))
               /\ UNCHANGED <<last_scan_time, written>>
    /\ tracked_files' = tracked_files \cup client_new'
    /\ UNCHANGED <<tree, faulty, mainIdleVars, mtime, now, remote_up, cryoVars>>

\* the service becomes unreachable, or reachable again
RemoteFlip ==
    /\ remote_up' = ~remote_up
    /\ UNCHANGED <<tree, faulty, tracked_files, mainIdleVars, mtime, now, rpc,
                   last_scan_time, provider, client_new, written, cryoVars>>

\* the files that appear in the tree the client watches
ClientFiles == { n \in FileNodes : n.kind = "file" /\ Len(n.path) <= 2 }

ClientInit ==
    /\ MainIdle
    /\ CryoIdle
    /\ tracked_files = {}
    /\ tree \in { DirNodes \cup F : F \in SUBSET ClientFiles }
    /\ faulty = {}
    /\ now = 0
    /\ mtime = [p \in Paths |-> 0]
    /\ rpc = NoCall
    /\ remote_up \in BOOLEAN
    /\ last_scan_time = <<>>
    /\ provider = "none"
    /\ client_new = {}
    /\ written = {}

ClientNext ==
    \/ client_cycle
    \/ RemoteFlip
    \/ Tick
    \/ \E n \in ClientFiles : Touch(n)
    \/ \E n \in ClientFiles : \E m \in 0..now : CreateFile(n, m)

ClientSpec == ClientInit /\ [][ClientNext]_vars

(* ============================================================= cryo_sync.py *)
\* THRESHOLD, line 34
THRESHOLD == 5

\* the order in which os.listdir(BASE_DIR) gives the projects
ProjectOrder == <<"p1", "p2">>

\* What project.json of a project says: "true" when it holds detached:
\* true, "false" when it holds detached: false or no such key, "unreadable"
\* when the file is missing or cannot be read or parsed.

\* is_project_detached, lines 67-77: False also when project.json is missing
\* (line 71) or reading it raises (lines 75-77)
is_project_detached(d) == d = "true"

\* a check that holds for every project
should_scan_project_all(d) == TRUE

\* should_scan_project, lines 79-81
should_scan_project(d) == ~is_project_detached(d)

\* get_new_files_count, lines 47-54: 0 when listing the directory raises
get_new_files_count(n, err) == IF err THEN 0 ELSE n

\* monitor_projects, lines 88-94: project_dirs is built
monitor_projects_list ==
    /\ cpc = "list"
    /\ project_dirs' = SelectSeq(ProjectOrder,
                           LAMBDA p : should_scan_project(detached[p]))
    /\ visit' = 1
    /\ cpc' = "visit"
    /\ foundDetached' = { p \in Projects : detached[p] = "true" }
    /\ startedNow' = {}
    /\ UNCHANGED <<tree, faulty, tracked_files, mainIdleVars, rpcVars,
                   detached, file_count, procs>>

\* monitor_projects, lines 99-107: one turn of the loop over project_dirs
monitor_projects_visit ==
    /\ cpc = "visit"
    /\ visit <= Len(project_dirs)
    /\ \E err \in BOOLEAN :
          LET project_dir == project_dirs[visit]
              current_count == get_new_files_count(file_count[project_dir], err)
          IN IF current_count >= THRESHOLD
                THEN /\ procs[project_dir] < MaxProcs
                     /\ procs' = [procs EXCEPT ![project_dir] = @ + 1]
                     /\ startedNow' = startedNow \cup {project_dir}
                ELSE UNCHANGED <<procs, startedNow>>
    /\ visit' = visit + 1
    /\ UNCHANGED <<tree, faulty, tracked_files, mainIdleVars, rpcVars,
                   detached, file_count, cpc, project_dirs, foundDetached>>

\* monitor_projects, line 111: the loop over project_dirs is over; after
\* time.sleep(CHECK_INTERVAL) the next turn of while True begins
monitor_projects_sleep ==
    /\ cpc = "visit"
    /\ visit > Len(project_dirs)
    /\ cpc' = "list"
    /\ UNCHANGED <<tree, faulty, tracked_files, mainIdleVars, rpcVars,
                   detached, file_count, project_dirs, visit, procs,
                   foundDetached, startedNow>>

\* process_project, lines 113-122: a process ends, after an rsync run that
\* returned 0 or after RETRY_LIMIT runs that did not
process_project_exit(p) ==
    /\ procs[p] > 0
    /\ procs' = [procs EXCEPT ![p] = @ - 1]
    /\ UNCHANGED <<tree, faulty, tracked_files, mainIdleVars, rpcVars,
                   detached, file_count, cpc, project_dirs, visit,
                   foundDetached, startedNow>>

\* project.json of a project is rewritten, removed or created
SetDetached(p, d) ==
    /\ detached[p] # d
    /\ detached' = [detached EXCEPT ![p] = d]
    /\ UNCHANGED <<tree, faulty, tracked_files, mainIdleVars, rpcVars,
                   file_count, cpc, project_dirs, visit, procs, foundDetached,
                   startedNow>>

\* a file appears in a project directory
AddProjectFile(p) ==
    /\ file_count[p] < THRESHOLD + MaxNewFiles
    /\ file_count' = [file_count EXCEPT ![p] = @ + 1]
    /\ UNCHANGED <<tree, faulty, tracked_files, mainIdleVars, rpcVars,
                   detached, cpc, project_dirs, visit, procs, foundDetached,
                   startedNow>>

CryoInit ==
    /\ MainIdle
    /\ RpcIdle
    /\ tree = DirNodes
    /\ faulty = {}
    /\ tracked_files = {}
    /\ detached \in [Projects -> {"true", "false", "unreadable"}]
    /\ file_count \in [Projects -> (THRESHOLD - 1)..THRESHOLD]
    /\ cpc = "list"
    /\ project_dirs = <<>>
    /\ visit = 0
    /\ procs = [p \in Projects |-> 0]
    /\ foundDetached = {}
    /\ startedNow = {}

CryoNext ==
    \/ monitor_projects_list
    \/ monitor_projects_visit
    \/ monitor_projects_sleep
    \/ \E p \in Projects : process_project_exit(p)
    \/ \E p \in Projects : \E d \in {"true", "false", "unreadable"} :
          SetDetached(p, d)
    \/ \E p \in Projects : AddProjectFile(p)

CryoSpec == CryoInit /\ [][CryoNext]_vars

(* ================================================================ claims *)
\* the paths of the source tree that are symbolic links, or lie below one
ViaLink(t, p) == \E k \in 1..Len(p) : islink(t, SubSeq(p, 1, k))

\* the regular files of the source tree, at every directory depth
RegularFilesOf(t) == { n.path : n \in { m \in t : m.kind = "file" /\ ~ViaLink(t, m.path) } }

\* the paths a recursive walk of the source tree finds to be files
ScannedPaths(t) == { n.path : n \in { m \in t : m.kind \in {"file", "linkfile"} } }

\* the scanned paths that are neither tracked nor known at the destination
Qualifying == { p \in ScannedPaths(tree) : p \notin tracked_files /\ p \notin dest_files }

(* ---- C1 ---- *)
\* C1: when the scan of the next cycle begins (main is back in
\* monitor_directory), every path the last poll cycle handed to sync_files,
\* copied or not, is in tracked_files.  The code never adds to tracked_files
\* after line 285, so this is violated.
C1_HandedPathsAreTracked ==
    pc = "monitor" => Range(new_files) \subseteq tracked_files

(* ---- C2 ---- *)
\* C2: with retries = N >= 1 and a source tree that does not change after the
\* initial pass, the poll loop never finds a non-empty diff, and when main is
\* done exactly N (empty) scans were made.  Violated by a tree with a file
\* below the second directory level.
C2_UnchangedTreeExactlyNEmptyScans ==
    (retries >= 1 /\ ~changed) =>
        /\ pc # "poll_sync"
        /\ pc = "done" => attempt = retries

(* ---- C3 ---- *)
\* C3: a poll cycle that follows a poll cycle which transferred files
\* transfers nothing when the source tree did not change in between, and in
\* no case hands a path of the previous cycle to sync_files again.
C3_SecondCycleTransfersNothing ==
    [][(pc = "monitor" /\ new_files # <<>> /\ pc' = "poll_sync") =>
          /\ changedSinceScan
          /\ Range(new_files') \cap Range(new_files) = {}]_vars

(* ---- C4 ---- *)
\* C4: without --resume, the list the initial pass hands to sync_files holds
\* every regular file of the source tree, whatever its directory depth.
C4_InitialPassEnumeratesEveryFile ==
    (~resume /\ pc # "start" /\ ~changed) =>
        RegularFilesOf(tree) \subseteq Range(files_to_sync)

(* ---- C5 ---- *)
\* C5: tracked_files never loses a member, and no path of tracked_files is
\* in the list of new files of a cycle, even when its copy failed.
C5_TrackedOnlyGrowsNeverRequeued ==
    [][/\ tracked_files \subseteq tracked_files'
       /\ Range(new_files') \cap tracked_files' = {}]_vars

\* a poll cycle transfers new files while a tracked regular file, handed to
\* sync_files by the initial pass, is not at the destination
C5_Witness ==
    /\ pc = "poll_sync"
    /\ \E p \in tracked_files : ~islink(tree, p) /\ dest[p] # "copied"

(* ---- C6 ---- *)
\* C6: every scan of monitor_directory yields exactly the scanned source
\* paths that are neither in tracked_files nor in dest_files, each once: the
\* list handed to sync_files is that set, and the scan counts as empty only
\* when that set is empty.
C6_NewFilesIsSetDifference ==
    [][(pc = "monitor" /\ attempt' = attempt + 1) =>
          IF pc' = "poll_sync"
             THEN /\ Range(new_files') = Qualifying
                  /\ Len(new_files') = Cardinality(Qualifying)
             ELSE Qualifying = {}]_vars

\* a cycle whose scan finds new paths at several directory levels next to
\* paths that are tracked and paths that are known at the destination
C6_Witness ==
    /\ pc = "poll_sync"
    /\ Len(new_files) >= 2
    /\ \E p \in Range(new_files) : Len(p) > 1
    /\ (tracked_files \ dest_files) \cap ScannedPaths(tree) # {}
    /\ (dest_files \ tracked_files) \cap ScannedPaths(tree) # {}

(* ---- C7 ---- *)
\* the entries of the results lists of the batches of the running sync_files
AllResults == UNION { Range(batches[b].results) : b \in DOMAIN batches }

\* C7 as stated: a file whose copy fails on each of the retries attempts has
\* had exactly retries shutil.copy2 calls, is in no results list and is
\* absent from the destination.
C7_ExhaustedFileAbsent ==
    \A p \in Paths :
        (fstat[p].out # "none" /\ fstat[p].firstOk > retries) =>
            /\ fstat[p].calls = retries
            /\ batch_result(p) \notin AllResults
            /\ dest[p] = "absent"

\* C7 as amended: a file whose copy fails on each of the retries attempts
\* has had exactly retries shutil.copy2 calls and is in no results list; its
\* destination is left as it was before the attempts or partly written,
\* never a fresh complete copy.
C7_ExhaustedFileNotCopied ==
    [][\A p \in Paths :
          (fstat[p].out = "none" /\ fstat'[p].out # "none"
             /\ fstat'[p].firstOk > retries) =>
                /\ fstat'[p].out = "failed"
                /\ fstat'[p].calls = retries
                /\ batch_result(p) \notin AllResults'
                /\ dest'[p] \in {dest[p], "partial"}]_vars

\* a file failed on each of several attempts and left a partly written
\* destination file
C7_Witness ==
    \E p \in Paths :
        /\ fstat[p].out = "failed" /\ fstat[p].firstOk > retries
        /\ fstat[p].calls >= 2
        /\ dest[p] = "partial"

(* ---- C8 ---- *)
\* C8: a file whose copy fails k < retries times and then succeeds is copied
\* with exactly k + 1 shutil.copy2 calls, and its entry in the results list
\* records that number of attempts.  The entries of results are the pairs
\* (file_source, file_dest) of line 133: no attempt count is recorded.
C8_SuccessRecordsAttemptCount ==
    /\ \A p \in Paths :
          fstat[p].firstOk \in 1..retries =>
              fstat[p].out = "copied" /\ fstat[p].calls = fstat[p].firstOk
    /\ \A r \in AllResults :
          Len(r) >= 3 /\ r[3] = fstat[Tail(r[1])].calls

(* ---- C9 ---- *)
\* C9: no symbolic link of the source tree, and nothing below a symbolic
\* link to a directory, has an entry at the destination or is counted as a
\* copied file.
C9_NoSymlinkAtDestination ==
    \A p \in Paths :
        ViaLink(tree, p) =>
            dest[p] = "absent" /\ batch_result(p) \notin AllResults

(* ---- C10 ---- *)
\* C10: when every batch of sync_files has finished, synced_files_count is
\* the number of files copied, failed_files the number of files whose
\* retries were exhausted, and with the skipped symbolic links they add up to
\* the number of paths handed over.
C10_CountsAccountForEveryPath ==
    SyncFinished =>
        LET Got(o) == Cardinality({ p \in Range(SyncArg) : fstat[p].out = o })
        IN /\ synced_files_count = Got("copied")
           /\ failed_files = Got("failed")
           /\ synced_files_count + failed_files + Got("skipped") = Len(SyncArg)

(* ---- C11 ---- *)
\* the batch stopped at one of its files: its sync_batch took the except
\* branch
BatchRaised(b) ==
    /\ batches[b].st = "done"
    /\ batches[b].idx <= Len(file_batches(SyncArg)[b])

\* C11: a batch that raises an unexpected error is caught: failed_files
\* counts exactly the batches that raised, a batch ends early only through
\* an error of its own (at the file it had reached), every batch that has not
\* finished still has a step to take, and sync_files raises nothing: main
\* ends with an exception only through --resume.
C11_BatchErrorIsolated ==
    /\ InSync =>
          /\ failed_files = Cardinality({ b \in DOMAIN batches : BatchRaised(b) })
          /\ \A b \in DOMAIN batches :
                BatchRaised(b) =>
                    fstat[file_batches(SyncArg)[b][batches[b].idx]].out = "raised"
          /\ ~SyncFinished =>
                \E c \in DOMAIN batches :
                    \/ batches[c].st = "adding"
                    \/ batches[c].st # "done" /\ CanRun(c)
    /\ pc = "raised" => resume

\* a batch raised and, with that batch ended, another batch of the same call
\* copied a file and finished
C11_Witness ==
    /\ SyncFinished
    /\ failed_files = 1
    /\ \E b \in DOMAIN batches : BatchRaised(b)
    /\ \E c \in DOMAIN batches :
          /\ ~BatchRaised(c)
          /\ batches[c].results # <<>>
          /\ synced_files_count = Len(batches[c].results)

(* ---- C12 ---- *)
\* C12: sync_files is a barrier: while a batch of the running sync_files call
\* has not finished, main stays in that call: it starts no sleep and no scan
\* (attempt and the lists of main are untouched), and it leaves the call only
\* when every batch is done.
C12_SyncFilesIsBarrier ==
    [][(InSync /\ \E b \in DOMAIN batches : batches[b].st # "done") =>
          /\ pc' = pc
          /\ attempt' = attempt
          /\ new_files' = new_files
          /\ tracked_files' = tracked_files]_vars

\* main waits in sync_files: one batch has finished, another is running
C12_Witness ==
    /\ pc = "poll_sync"
    /\ \E b \in DOMAIN batches : batches[b].st = "done"
    /\ \E c \in DOMAIN batches : batches[c].st = "running" /\ batches[c].idx > 1

(* ---- C13 ---- *)
\* C13: once KeyboardInterrupt is raised, main starts no further scan and no
\* further transfer and goes to its end without raising: at once outside
\* sync_files; inside sync_files when every batch has run to its end (none
\* is cancelled: a finished batch handled each of its files or raised by
\* itself).
C13_InterruptEndsLoop ==
    [][/\ (~interrupted /\ interrupted') =>
             pc' = (IF InSync THEN pc ELSE "done")
       /\ interrupted =>
             /\ interrupted'
             /\ attempt' = attempt
             /\ new_files' = new_files
             /\ pc' \in {pc, "done"}
             /\ pc' # pc =>
                   \A b \in DOMAIN batches :
                       /\ batches[b].st = "done"
                       /\ BatchRaised(b) =>
                            fstat[file_batches(SyncArg)[b][batches[b].idx]].out
                                = "raised"
             /\ \A b \in DOMAIN batches :
                   /\ b \in DOMAIN batches'
                   /\ batches'[b].idx >= batches[b].idx
                   /\ batches[b].st = "done" => batches'[b] = batches[b]]_vars

\* main was interrupted during a poll transfer and has ended after its
\* batches, some still queued when it was interrupted, copied their files
C13_Witness ==
    /\ interrupted
    /\ pc = "done"
    /\ new_files # <<>>
    /\ Len(batches) >= 2
    /\ \A b \in DOMAIN batches : batches[b].results # <<>>

(* ---- C16 ---- *)
\* C16: the counter of the retry loop is the number of empty scans made
\* since the last scan that found new files, and main leaves the poll loop by
\* exhaustion only when that number is retries.
C16_ExitAfterConsecutiveEmptyScans ==
    /\ pc = "monitor" => attempt = emptyRun
    /\ pc = "done" => attempt = retries /\ emptyRun = retries

\* an empty scan was followed by a scan that found new files: the empty scan
\* no longer counts
C16_Witness ==
    /\ pc = "poll_sync"
    /\ attempt >= 2
    /\ emptyRun = 0

(* ---- C17 ---- *)
\* the sum of the lengths of the results lists of the batches that are done
RECURSIVE SumDone(_, _)
SumDone(bs, n) ==
    IF n = 0 THEN 0
    ELSE (IF bs[n].st = "done" THEN Len(bs[n].results) ELSE 0) + SumDone(bs, n - 1)

C20_ResumeReachesDone ==
    resume => pc # "raised"

(* ---- C18 ---- *)
\* the files of the tree that can be accessed: neither the entry itself nor
\* a directory on the way to it raises
Accessible(t, bad) ==
    { n.path : n \in { m \in t : /\ IsFile(m)
                                 /\ \A k \in 1..Len(m.path) :
                                        SubSeq(m.path, 1, k) \notin bad } }

\* C18: a scan of monitor_directory over a tree in which the access to some
\* entries raises does not fail and loses those entries only: it yields every
\* accessible file that is not tracked, later entries of the directory of a
\* failing entry included.  The try of line 188 encloses the whole loop over
\* a directory, so the entries after a failing one are lost: violated.
C18_ErrorSkipsOnlyThatEntry ==
    [][(pc = "monitor" /\ attempt' = attempt + 1) =>
          LET ok == { p \in Accessible(tree, faulty) :
                         p \notin tracked_files /\ p \notin dest_files }
          IN IF pc' = "poll_sync" THEN Range(new_files') = ok
                                  ELSE ok = {}]_vars

C14_FallbackYieldsRemotePaths ==
    [][(rpc' # rpc \/ client_new' # client_new \/ provider' # provider) =>
          /\ remote_up => provider' = "remote"
          /\ ~remote_up =>
                /\ provider' = "local"
                /\ client_new' =
                      exposed_scan_directory(tree, mtime, now,
                                             last_scan_time).files
                         \ tracked_files]_vars

(* ---- C15 ---- *)
\* C15: a project whose project.json says detached: true when a cycle of
\* monitor_projects checks it gets no transfer process started by that
\* cycle, whatever the number of its files.
C15_DetachedProjectNotStarted ==
    startedNow \cap foundDetached = {}

\* a cycle has visited every project of its list: it found a project with
\* THRESHOLD files or more detached and started a process for another one
C15_Witness ==
    /\ cpc = "visit"
    /\ visit > Len(project_dirs)
    /\ startedNow # {}
    /\ \E p \in foundDetached :
          detached[p] = "true" /\ file_count[p] >= THRESHOLD

(* ---- C22 ---- *)
\* C22: at most one process_project process of a project runs at a time:
\* monitor_projects starts no process for a project while an earlier one of
\* that project is still running.  monitor_projects keeps no record of the
\* processes it started and starts one in every cycle that counts THRESHOLD
\* files or more: violated.
C22_OneProcessPerProject ==
    \A p \in Projects : procs[p] <= 1

(* ---- C23 ---- *)
\* C23: a client that passes the scan_time of each remote scan as the
\* last_scan_time of its next one loses no file: every file created or
\* modified at or after the moment a remote scan started is reported by that
\* scan or by the next remote scan.  scan_time is read before the walk and
\* the next scan reports st_mtime > scan_time only, so a file written at the
\* clock value of scan_time, after the walk, is reported by neither:
\* violated.
C23_NoFileLostBetweenScans ==
    [][(rpc.st = "returned" /\ rpc'.st = "returned" /\ written' = {}
          /\ rpc'.arg = <<rpc.scan_time>>) =>
              written \subseteq rpc.files \cup rpc'.files]_vars

(* ---- C21 ---- *)
\* C21: when new files have appeared in the source tree during the run, main
\* transfers them and, the tree changing no more, eventually leaves the poll
\* loop and is done.  Only finitely many files can appear (MaxNewFiles), so
\* in every behaviour the tree stops changing.  The paths of a poll transfer
\* are never added to tracked_files (C1), so every later scan finds them
\* again and main transfers them for ever: violated under LiveSpec.
C21_NewFilesThenDone ==
    changed ~> (pc = "done")
====
